---- MODULE Spec2Model ----
(***************************************************************************)
(* masonry-quilt: the layout engine of src/src/calculator.ts as a state    *)
(* machine.  One behaviour is one call of calculateLayout: Init draws the  *)
(* arguments, the actions are the grid sizing, the per-item steps of       *)
(* phases 1 and 2 and the phases 3 and 4, and the last action builds the   *)
(* result.                                                                 *)
(*                                                                         *)
(* Numbers.  Sizes are JavaScript doubles in the source.  The model works  *)
(* in integers: a quotient a/b is kept as the pair (a, b), Math.round and  *)
(* Math.sqrt are computed exactly on such pairs, and comparisons with 0.1, *)
(* 0.75 and 0.8 are cross-multiplied.  Pixel results are kept in quarter   *)
(* pixels (x4 = 4 * x), because x = col * (baseSize + gap) / 4.            *)
(***************************************************************************)
EXTENDS Integers, Sequences, FiniteSets, TLC

\* Longest item list drawn by Init.
MaxItems == 3

----------------------------------------------------------------------------
(* Arithmetic of the source                                                *)

Max(a, b) == IF a >= b THEN a ELSE b
Min(a, b) == IF a <= b THEN a ELSE b
Abs(a) == IF a >= 0 THEN a ELSE -a

SetMax(S) == CHOOSE x \in S : \A y \in S : y <= x
SetMin(S) == CHOOSE x \in S : \A y \in S : x <= y

\* Math.round(num / den) for num >= 0, den > 0: floor(num/den + 1/2).
Round(num, den) == (2 * num + den) \div (2 * den)

\* Math.ceil(num / den) for num >= 0, den > 0.
Ceil(num, den) == (num + den - 1) \div den

\* Math.round(Math.sqrt(num / den)) for num >= 0, den > 0: the least n with
\* num/den < (n + 1/2)^2.
RECURSIVE SqrtSearch(_, _, _)
SqrtSearch(n, num, den) ==
    IF 4 * num < (2 * n + 1) * (2 * n + 1) * den THEN n
    ELSE SqrtSearch(n + 1, num, den)

RoundSqrt(num, den) == SqrtSearch(0, num, den)

\* Math.round((px / baseSize) * 4): pixels to internal units.
ToUnits(px, baseSize) == Round(4 * px, baseSize)

----------------------------------------------------------------------------
(* Items                                                                   *)

\* An absent size/minSize/maxSize is <<>>, an absent ratio is "", and loose
\* is "unset", "true" or "false".
Fmt(size, minSize, maxSize, ratio, loose) ==
    [size |-> size, minSize |-> minSize, maxSize |-> maxSize,
     ratio |-> ratio, loose |-> loose]

\* The formats Init draws items from, by name (pixels, as the caller gives
\* them).
FormatOf ==
    [plain      |-> Fmt(<<>>, <<>>, <<>>, "", "unset"),
     tallStrict |-> Fmt(<<200, 5000>>, <<>>, <<>>, "", "false"),
     sizeBox    |-> Fmt(<<400, 400>>, <<>>, <<>>, "", "unset"),
     minTall    |-> Fmt(<<>>, <<200, 2000>>, <<>>, "", "unset"),
     maxThin    |-> Fmt(<<>>, <<>>, <<100, 5000>>, "", "unset"),
     wide21     |-> Fmt(<<>>, <<>>, <<>>, "2:1", "unset"),
     wide169    |-> Fmt(<<>>, <<>>, <<>>, "16:9", "false"),
     sizeTiny   |-> Fmt(<<10, 10>>, <<>>, <<>>, "", "unset"),
     maxTiny    |-> Fmt(<<>>, <<>>, <<10, 10>>, "", "unset"),
     landscapeStrict |-> Fmt(<<>>, <<>>, <<>>, "landscape", "false"),
     maxSliver  |-> Fmt(<<>>, <<>>, <<25, 5000>>, "", "unset")]

CoreFormats ==
    {"plain", "tallStrict", "sizeBox", "minTall", "maxThin", "wide21", "wide169"}

\* Formats at the edges of the Size Resolver: sizes below one unit and
\* ratio shortcuts, next to the formats that exercise phase 2.
EdgeFormats ==
    {"tallStrict", "minTall", "sizeTiny", "maxTiny", "landscapeStrict"}

\* Formats for the Gap Filler: items that fill the columns, and a narrow
\* item of less area than the fallback sizes.
GapFormats == {"plain", "minTall", "tallStrict", "maxSliver"}

\* The containers and options Init draws from.
Containers ==
    {[width |-> 100, height |-> 100, baseSize |-> 200, gap |-> 16],
     [width |-> 216, height |-> 216, baseSize |-> 200, gap |-> 16],
     [width |-> 500, height |-> 100, baseSize |-> 200, gap |-> 16],
     [width |-> 648, height |-> 216, baseSize |-> 200, gap |-> 16],
     [width |-> 200, height |-> 100, baseSize |-> 100, gap |-> 0]}

RATIO_SHORTCUTS ==
    [portrait |-> "1:2", landscape |-> "2:1", banner |-> "4:1", tower |-> "1:4"]

IsShortcut(ratio) == ratio \in DOMAIN RATIO_SHORTCUTS

\* resolvedRatio.split(":") followed by parseInt of both parts: the pair
\* <<ratioW, ratioH>>, or <<>> when there are not two parts or a part is
\* not a number.
ParseRatio(resolved) ==
    CASE resolved = "1:1" -> <<1, 1>>
      [] resolved = "1:2" -> <<1, 2>>
      [] resolved = "2:1" -> <<2, 1>>
      [] resolved = "4:1" -> <<4, 1>>
      [] resolved = "1:4" -> <<1, 4>>
      [] resolved = "3:1" -> <<3, 1>>
      [] resolved = "16:9" -> <<16, 9>>
      [] resolved = "0:1" -> <<0, 1>>
      [] OTHER -> <<>>

----------------------------------------------------------------------------
(* calculateCardSize                                                       *)

NullSize == [ok |-> FALSE, width |-> 0, height |-> 0]
Size(w, h) == [ok |-> TRUE, width |-> w, height |-> h]

\* Math.abs(w / h - ratioW / ratioH) > 0.1.  With h = 0 the quotient is
\* Infinity (w > 0), which differs, or NaN (w = 0), which compares false.
RatioDiffers(w, h, ratioW, ratioH) ==
    IF h = 0 THEN w # 0
    ELSE 10 * Abs(w * ratioH - ratioW * h) > h * ratioH

\* Mutant of SnapStrict: the re-snap biases the wrong axis.
SnapStrictWrongAxis(w, h, ratioW, ratioH) ==
    IF ~RatioDiffers(w, h, ratioW, ratioH) THEN <<w, h>>
    ELSE IF ratioW < ratioH THEN <<Round(h * ratioW, ratioH), h>>
    ELSE <<w, Round(w * ratioH, ratioW)>>

\* The strict re-snap of one axis.
SnapStrict(w, h, ratioW, ratioH) ==
    IF ~RatioDiffers(w, h, ratioW, ratioH) THEN <<w, h>>
    ELSE IF ratioW > ratioH THEN <<Round(h * ratioW, ratioH), h>>
    ELSE <<w, Round(w * ratioH, ratioW)>>

\* The ratio block: <<width, height>> after it.
ApplyRatio(fmt, w, h, gridCols, gridRows) ==
    IF fmt.ratio = "" THEN <<w, h>>
    ELSE
      LET resolved == IF IsShortcut(fmt.ratio) THEN RATIO_SHORTCUTS[fmt.ratio]
                      ELSE fmt.ratio
          isLoose == IsShortcut(fmt.ratio) \/ fmt.loose = "true"
          parts == ParseRatio(resolved)
      IN IF parts = <<>> THEN <<w, h>>
         ELSE
           LET ratioW == parts[1]
               ratioH == parts[2]
           IN IF ~(ratioW > 0 /\ ratioH > 0) THEN <<w, h>>
              ELSE IF ~RatioDiffers(w, h, ratioW, ratioH) THEN <<w, h>>
              ELSE
                LET area == w * h
                    w1 == RoundSqrt(area * ratioW, ratioH)
                    h1 == Round(w1 * ratioH, ratioW)
                    w2 == Max(Min(2, gridCols), w1)
                    h2 == Max(Min(2, gridRows), h1)
                IN IF isLoose THEN <<w2, h2>>
                   ELSE SnapStrict(w2, h2, ratioW, ratioH)

\* The loose scale-down of the fit check: scale = min(gridCols / width,
\* gridRows / height), each axis floored and at least 1.
ScaleToFit(w, h, gridCols, gridRows) ==
    LET byCols == gridCols * h <= gridRows * w
        w1 == IF byCols THEN Max(1, gridCols) ELSE Max(1, (w * gridRows) \div h)
        h1 == IF byCols THEN Max(1, (h * gridCols) \div w) ELSE Max(1, gridRows)
    IN IF w1 > gridCols \/ h1 > gridRows THEN NullSize ELSE Size(w1, h1)

\* May the fit check scale the item down?
FitMayScale(fmt) ==
    fmt.loose # "false" /\ (fmt.ratio = "" \/ IsShortcut(fmt.ratio))

\* <<width, height>> when the fit check is reached: the size, the ratio
\* and the minSize and maxSize clamps have been applied.
ClampedSize(fmt, baseSize, gridCols, gridRows) ==
    LET w0 == IF fmt.size # <<>> THEN ToUnits(fmt.size[1], baseSize) ELSE 8
        h0 == IF fmt.size # <<>> THEN ToUnits(fmt.size[2], baseSize) ELSE 8
        r  == ApplyRatio(fmt, w0, h0, gridCols, gridRows)
        w1 == IF fmt.minSize # <<>> THEN Max(r[1], ToUnits(fmt.minSize[1], baseSize))
              ELSE r[1]
        h1 == IF fmt.minSize # <<>> THEN Max(r[2], ToUnits(fmt.minSize[2], baseSize))
              ELSE r[2]
        w2 == IF fmt.maxSize # <<>> THEN Min(w1, ToUnits(fmt.maxSize[1], baseSize))
              ELSE w1
        h2 == IF fmt.maxSize # <<>> THEN Min(h1, ToUnits(fmt.maxSize[2], baseSize))
              ELSE h1
    IN <<w2, h2>>

CalculateCardSize(fmt, baseSize, gridCols, gridRows) ==
    LET clamped == ClampedSize(fmt, baseSize, gridCols, gridRows)
        w2 == clamped[1]
        h2 == clamped[2]
    IN IF w2 > gridCols \/ h2 > gridRows
       THEN IF FitMayScale(fmt) THEN ScaleToFit(w2, h2, gridCols, gridRows)
            ELSE NullSize
       ELSE Size(w2, h2)

----------------------------------------------------------------------------
(* State of one calculateLayout call                                       *)

VARIABLES
    items,              \* the item list: format names, items[k] is input index k - 1
    width, height,      \* container size in pixels
    baseSize, gap,      \* options
    looseness,          \* option looseness, in tenths
    includeGrid,        \* option includeGrid
    history,            \* the calls that have returned: their arguments and results
    pc,                 \* position in calculateLayout
    gridCols,           \* ctx.gridCols
    gridRows,           \* the gridRows that phases 1 and 2 destructured from ctx
    ctxGridRows,        \* ctx.gridRows, the row count of the occupancy table
    viewportRowsInCells,
    maxDisplacement,    \* Math.floor(looseness * items.length)
    sizes,              \* sizes[k]: what calculateCardSize returns for items[k] on this grid
    occupied,           \* the occupancy table, as the set of the regions marked in it
    placed,             \* ctx.placed
    columnHeights,      \* phase 1's per-column height table
    i,                  \* phase 1: next index into items; phase 2: next index into unplacedItems
    unplacedIndices,    \* phase 1's deferred indices
    unplacedItems,      \* phase 2's sorted deferred indices
    actualGridRowsInUnits,
    usedCellsBeforeExpansion,
    result              \* the LayoutResult

\* State of the helpers of src/src/helpers.ts: one debounced observer or
\* scroll listener, its timer, and what happened to it so far.
VARIABLES
    helper,             \* "none", or the helper created: "resize" or "scroll"
    wait,               \* debounceMs, in ticks of the clock
    now,                \* the clock
    listening,          \* the observer is connected / the listener is registered
    timer,              \* the timeout of debounce: pending or not, when due, the arguments
    scrollTop,          \* scrollContainer.scrollTop
    log                 \* the entries delivered, the cleanup and the callback invocations, in order

layoutVars ==
    <<items, width, height, baseSize, gap, looseness, includeGrid, history, pc,
      gridCols, gridRows, ctxGridRows, viewportRowsInCells, maxDisplacement, sizes,
      occupied, placed, columnHeights, i, unplacedIndices,
      unplacedItems, actualGridRowsInUnits, usedCellsBeforeExpansion, result>>

helperVars == <<helper, wait, now, listening, timer, scrollTop, log>>

vars == <<layoutVars, helperVars>>

inputs == <<items, width, height, baseSize, gap, looseness, includeGrid>>

\* The grid, fixed once the context is built.
gridVars == <<gridCols, gridRows, viewportRowsInCells, maxDisplacement, sizes>>

\* The format of the item with input index k (0-based, as originalIndex).
ItemFormat(k) == FormatOf[items[k + 1]]

\* Mutant of Card: every card refers to the first item.
CardOfFirstItem(originalIndex, w, h, row, col) ==
    [originalIndex |-> 0, width |-> w, height |-> h, row |-> row, col |-> col]

Card(originalIndex, w, h, row, col) ==
    [originalIndex |-> originalIndex, width |-> w, height |-> h, row |-> row, col |-> col]

\* The occupancy table.  Its cells only ever turn true, and only in
\* markRegion, so the table is kept as the set of the rectangles marked so
\* far: occupied[r][c] is true iff one of them covers <<r, c>>.
Region(row, col, w, h) == [row |-> row, col |-> col, width |-> w, height |-> h]

Covers(rect, r, c) ==
    /\ rect.row <= r /\ r < rect.row + rect.height
    /\ rect.col <= c /\ c < rect.col + rect.width

\* occupied[r][c]
IsOccupied(table, r, c) == \E m \in table : Covers(m, r, c)

\* markRegion: the table after marking; the cells at or beyond maxRows or
\* maxCols are skipped.
MarkRegion(table, row, col, w, h, maxRows, maxCols) ==
    LET h1 == Min(row + h, maxRows) - row
        w1 == Min(col + w, maxCols) - col
    IN IF h1 <= 0 \/ w1 <= 0 THEN table
       ELSE table \cup {Region(row, col, w1, h1)}

\* A quotient num / den of the result.
Quotient(num, den) == [num |-> num, den |-> den]

\* The result before the call has returned.
NoResult ==
    [cards |-> <<>>, width4 |-> 0, height4 |-> 0,
     utilization |-> Quotient(0, 1), orderFidelity |-> Quotient(0, 1)]

\* All sequences over S of length at most n.
SeqsUpTo(S, n) == UNION {[1 .. k -> S] : k \in 0 .. n}

\* options?.looseness ?? 0.2, in tenths.
DefaultLooseness == 2

\* The looseness values callers pass, in tenths.
Loosenesses == {0, 2, 5, 10}

\* No timeout is pending: timeout is null, or the timeout has run.
NoTimer == [pending |-> FALSE, due |-> 0, args |-> <<>>]

\* No helper has been created.
NoHelper ==
    /\ helper = "none"
    /\ wait = 0
    /\ now = 0
    /\ listening = FALSE
    /\ timer = NoTimer
    /\ scrollTop = 0
    /\ log = <<>>

\* The layout variables at the entry of the first call, its arguments drawn
\* from the given sets.
EntryState(itemLists, containers, loosenesses, grids) ==
    /\ items \in itemLists
    /\ \E k \in containers :
         /\ width = k.width
         /\ height = k.height
         /\ baseSize = k.baseSize
         /\ gap = k.gap
    /\ looseness \in loosenesses
    /\ includeGrid \in grids
    /\ history = <<>>
    /\ pc = "start"
    /\ gridCols = 0
    /\ gridRows = 0
    /\ ctxGridRows = 0
    /\ viewportRowsInCells = 0
    /\ maxDisplacement = 0
    /\ sizes = <<>>
    /\ occupied = {}
    /\ placed = <<>>
    /\ columnHeights = <<>>
    /\ i = 0
    /\ unplacedIndices = <<>>
    /\ unplacedItems = <<>>
    /\ actualGridRowsInUnits = 0
    /\ usedCellsBeforeExpansion = 0
    /\ result = NoResult

\* The state at the entry of the first call, no helper in use.
InitCall(itemLists, containers, loosenesses, grids) ==
    /\ NoHelper
    /\ EntryState(itemLists, containers, loosenesses, grids)

\* Default options, items over the given formats.
InitWith(formats) ==
    InitCall(SeqsUpTo(formats, MaxItems), Containers, {DefaultLooseness}, {FALSE})

Init == InitWith(CoreFormats)

----------------------------------------------------------------------------
(* Grid sizing                                                             *)

GridColsInCells == width \div (baseSize + gap)
ViewportRowsInCells == height \div (baseSize + gap)

\* Math.ceil((items.length * 9) / gridColsInCells), for gridColsInCells >= 1.
EstimatedRowsNeeded == Ceil(Len(items) * 9, GridColsInCells)

\* Mutant of GridRowsInCells: the row budget ignores the item count.
GridRowsOfViewport == ViewportRowsInCells * 3

\* Math.max(viewportRowsInCells * 3, Math.ceil(estimatedRowsNeeded * 1.5)).
GridRowsInCells == Max(ViewportRowsInCells * 3, Ceil(3 * EstimatedRowsNeeded, 2))

\* gridColsInCells < 1 || gridRowsInCells < 1.  With no column the row
\* estimate divides by zero (Infinity or NaN) and the first test decides.
Unusable == IF GridColsInCells < 1 THEN TRUE ELSE GridRowsInCells < 1

\* Mutant of UnusableResult: the unusable viewport counts as fully used.
UnusableResultFull ==
    [cards |-> <<>>,
     width4 |-> 4 * Max(baseSize, width),
     height4 |-> 4 * Max(baseSize, height),
     utilization |-> Quotient(1, 1),
     orderFidelity |-> Quotient(1, 1)]

\* The result returned for an unusable viewport.
UnusableResult ==
    [cards |-> <<>>,
     width4 |-> 4 * Max(baseSize, width),
     height4 |-> 4 * Max(baseSize, height),
     utilization |-> Quotient(0, 1),
     orderFidelity |-> Quotient(1, 1)]

\* The short-circuit return for an unusable viewport.
ReturnUnusable ==
    /\ pc = "start"
    /\ Unusable
    /\ result' = UnusableResult
    /\ pc' = "done"
    /\ UNCHANGED <<helperVars, inputs, history, gridVars, ctxGridRows, occupied,
                   placed, columnHeights, i, unplacedIndices, unplacedItems,
                   actualGridRowsInUnits, usedCellsBeforeExpansion>>

\* Mutant of FreshTable: the table is shared by the calls and keeps the
\* marks of the previous one.
StaleTable == occupied

\* The occupancy table a call starts with: every cell false.
FreshTable == {}

\* The layout context is built and phase 1 starts.
InitContext ==
    /\ pc = "start"
    /\ ~Unusable
    /\ gridCols' = GridColsInCells * 4
    /\ gridRows' = GridRowsInCells * 4
    /\ ctxGridRows' = GridRowsInCells * 4
    /\ viewportRowsInCells' = ViewportRowsInCells
    /\ maxDisplacement' = (looseness * Len(items)) \div 10
    /\ sizes' = [k \in DOMAIN items |->
                   CalculateCardSize(FormatOf[items[k]], baseSize,
                                     GridColsInCells * 4, GridRowsInCells * 4)]
    /\ occupied' = FreshTable
    /\ placed' = <<>>
    /\ columnHeights' = [c \in 0 .. GridColsInCells * 4 - 1 |-> 0]
    /\ i' = 0
    /\ unplacedIndices' = <<>>
    /\ pc' = "phase1"
    /\ UNCHANGED <<helperVars, inputs, history, unplacedItems, actualGridRowsInUnits,
                   usedCellsBeforeExpansion, result>>

----------------------------------------------------------------------------
(* Phase 1: placeItemsInColumns                                            *)

\* calculateCardSize(item, baseSize, gridCols, gridRows) for the item with
\* input index k.  The function is pure and both phases call it with the
\* same arguments, so every call returns the value computed once in sizes.
SizeOf(k) == sizes[k + 1]

\* Mutant of SpanHeight: only the first column of the span is looked at.
FirstColumnHeight(col, w) == columnHeights[col]

\* maxHeightInSpan of the span starting at col.
SpanHeight(col, w) ==
    IF w = 0 THEN 0 ELSE SetMax({columnHeights[c] : c \in col .. col + w - 1})

\* Mutant of MinSpanHeight: the span at column 0 is taken, the other start
\* columns are not scanned.
FirstSpanHeight(w) == SpanHeight(0, w)

\* minHeight: the least span height over the start columns 0 .. gridCols - w.
MinSpanHeight(w) == SetMin({SpanHeight(col, w) : col \in 0 .. gridCols - w})

\* Mutant of BestCol: the last start column of least span height.
LastBestCol(w) ==
    LET minHeight == MinSpanHeight(w)
    IN SetMax({col \in 0 .. gridCols - w : SpanHeight(col, w) = minHeight})

\* bestCol: the first start column whose span height is the least one.
BestCol(w) ==
    LET minHeight == MinSpanHeight(w)
    IN SetMin({col \in 0 .. gridCols - w : SpanHeight(col, w) = minHeight})

\* Mutant of FitsColumns: phase 1 enforces maxDisplacement.
FitsColumnsWithinDisplacement(k) ==
    /\ SizeOf(k).ok
    /\ MinSpanHeight(SizeOf(k).width) + SizeOf(k).height <= gridRows
    /\ Abs(Len(placed) - k) <= maxDisplacement

\* Does item i get a place in phase 1?
FitsColumns(k) ==
    /\ SizeOf(k).ok
    /\ MinSpanHeight(SizeOf(k).width) + SizeOf(k).height <= gridRows

PlaceInColumn ==
    /\ pc = "phase1"
    /\ i < Len(items)
    /\ FitsColumns(i)
    /\ LET size == SizeOf(i)
           col == BestCol(size.width)
           row == MinSpanHeight(size.width)
       IN /\ placed' = Append(placed, Card(i, size.width, size.height, row, col))
          /\ occupied' = MarkRegion(occupied, row, col, size.width, size.height,
                                    gridRows, gridCols)
          /\ columnHeights' =
               [c \in DOMAIN columnHeights |->
                  IF c >= col /\ c < col + size.width THEN row + size.height
                  ELSE columnHeights[c]]
    /\ i' = i + 1
    /\ UNCHANGED <<helperVars, inputs, history, pc, gridVars, ctxGridRows,
                   unplacedIndices, unplacedItems, actualGridRowsInUnits,
                   usedCellsBeforeExpansion, result>>

DeferItem ==
    /\ pc = "phase1"
    /\ i < Len(items)
    /\ ~FitsColumns(i)
    /\ unplacedIndices' = Append(unplacedIndices, i)
    /\ i' = i + 1
    /\ UNCHANGED <<helperVars, inputs, history, pc, gridVars, ctxGridRows,
                   occupied, placed, columnHeights, unplacedItems, actualGridRowsInUnits,
                   usedCellsBeforeExpansion, result>>

----------------------------------------------------------------------------
(* Phase 2: fillGaps                                                       *)

\* The sort comparator of fillGaps, as "a sorts before b": an unresolvable
\* a never does, a resolvable a precedes an unresolvable b, and otherwise
\* the smaller area goes first.
SortsBefore(a, b) ==
    /\ SizeOf(a).ok
    /\ \/ ~SizeOf(b).ok
       \/ SizeOf(a).width * SizeOf(a).height < SizeOf(b).width * SizeOf(b).height

\* x inserted before the first element it sorts before (a stable sort).
\* Unresolvable items end up last; their mutual order is left open by an
\* inconsistent comparator and is immaterial, since phase 2 skips them.
RECURSIVE InsertSorted(_, _)
InsertSorted(sorted, x) ==
    IF sorted = <<>> THEN <<x>>
    ELSE IF SortsBefore(x, Head(sorted)) THEN <<x>> \o sorted
    ELSE <<Head(sorted)>> \o InsertSorted(Tail(sorted), x)

RECURSIVE SortBySize(_)
SortBySize(indices) ==
    IF indices = <<>> THEN <<>>
    ELSE InsertSorted(SortBySize(SubSeq(indices, 1, Len(indices) - 1)),
                      indices[Len(indices)])

\* placeItemsInColumns has returned; fillGaps sorts the deferred items.
SortUnplaced ==
    /\ pc = "phase1"
    /\ i = Len(items)
    /\ unplacedItems' = SortBySize(unplacedIndices)
    /\ i' = 0
    /\ pc' = "phase2"
    /\ UNCHANGED <<helperVars, inputs, history, gridVars, ctxGridRows, occupied,
                   placed, columnHeights, unplacedIndices, actualGridRowsInUnits,
                   usedCellsBeforeExpansion, result>>

NoPosition == [found |-> FALSE, row |-> 0, col |-> 0]

\* The inner loops of findAvailablePosition: no cell of the rectangle is
\* occupied, that is, no marked region shares a cell with it.
RectFree(occ, row, col, w, h) ==
    \A m \in occ : ~(/\ w > 0 /\ h > 0
                     /\ m.row < row + h /\ row < m.row + m.height
                     /\ m.col < col + w /\ col < m.col + m.width)

\* The outer loop of findAvailablePosition from row on: the first row with
\* a free rectangle, and the first such column in it.  The rows are scanned
\* eight at a time.
RECURSIVE ScanRows(_, _, _, _, _, _)
ScanRows(row, occ, w, h, cols, rows) ==
    IF row > rows - h THEN NoPosition
    ELSE
      LET free == {r \in row .. Min(row + 7, rows - h) :
                     \E col \in 0 .. cols - w : RectFree(occ, r, col, w, h)}
      IN IF free # {}
         THEN LET first == SetMin(free)
              IN [found |-> TRUE, row |-> first,
                  col |-> SetMin({col \in 0 .. cols - w :
                                    RectFree(occ, first, col, w, h)})]
         ELSE ScanRows(row + 8, occ, w, h, cols, rows)

\* findAvailablePosition: the first free rectangle in row-major order.
FindAvailablePosition(occ, w, h, cols, rows) == ScanRows(0, occ, w, h, cols, rows)

\* May phase 2 fall back to the smaller sizes?
MayFallBack(fmt) == fmt.loose # "false" /\ fmt.ratio = ""

\* The sizes the attempt loop tries for item k, in order.
Candidates(k) ==
    IF MayFallBack(ItemFormat(k)) THEN <<SizeOf(k), Size(4, 4), Size(4, 2)>>
    ELSE <<SizeOf(k)>>

PositionFor(size) ==
    FindAvailablePosition(occupied, size.width, size.height, gridCols, gridRows)

\* The attempt loop from attempt a on: whether a position was found, the
\* size tried last, and the position.
RECURSIVE Attempt(_, _)
Attempt(tries, a) ==
    LET position == PositionFor(tries[a])
    IN IF position.found
       THEN [placedCard |-> TRUE, size |-> tries[a],
             row |-> position.row, col |-> position.col]
       ELSE IF a = Len(tries)
       THEN [placedCard |-> FALSE, size |-> tries[a], row |-> 0, col |-> 0]
       ELSE Attempt(tries, a + 1)

\* The deferred item phase 2 handles next.
NextUnplaced == unplacedItems[i + 1]

\* An unresolvable item: the attempt loop and the growth are both skipped.
FillGapSkip ==
    /\ pc = "phase2"
    /\ i < Len(unplacedItems)
    /\ ~SizeOf(NextUnplaced).ok
    /\ i' = i + 1
    /\ UNCHANGED <<helperVars, inputs, history, pc, gridVars, ctxGridRows,
                   occupied, placed, columnHeights, unplacedIndices, unplacedItems,
                   actualGridRowsInUnits, usedCellsBeforeExpansion, result>>

\* First fit, at the resolved size or at a fallback size.
FillGapPlace ==
    /\ pc = "phase2"
    /\ i < Len(unplacedItems)
    /\ SizeOf(NextUnplaced).ok
    /\ LET k == NextUnplaced
           outcome == Attempt(Candidates(k), 1)
           size == outcome.size
       IN /\ outcome.placedCard
          /\ placed' = Append(placed, Card(k, size.width, size.height,
                                           outcome.row, outcome.col))
          /\ occupied' = MarkRegion(occupied, outcome.row, outcome.col,
                                    size.width, size.height, gridRows, gridCols)
    /\ i' = i + 1
    /\ UNCHANGED <<helperVars, inputs, history, pc, gridVars, ctxGridRows,
                   columnHeights, unplacedIndices, unplacedItems, actualGridRowsInUnits,
                   usedCellsBeforeExpansion, result>>

\* No attempt found a position: the grid grows and the item goes to column
\* 0 of row gridRows, with the last size tried.
FillGapGrow ==
    /\ pc = "phase2"
    /\ i < Len(unplacedItems)
    /\ SizeOf(NextUnplaced).ok
    /\ LET k == NextUnplaced
           outcome == Attempt(Candidates(k), 1)
           size == outcome.size
           additionalRows == size.height + 8
       IN /\ ~outcome.placedCard
          /\ ctxGridRows' = ctxGridRows + additionalRows
          /\ placed' = Append(placed, Card(k, size.width, size.height, gridRows, 0))
          /\ occupied' = MarkRegion(occupied, gridRows, 0, size.width, size.height,
                                    ctxGridRows + additionalRows, gridCols)
    /\ i' = i + 1
    /\ UNCHANGED <<helperVars, inputs, history, pc, gridVars, columnHeights,
                   unplacedIndices, unplacedItems, actualGridRowsInUnits,
                   usedCellsBeforeExpansion, result>>

----------------------------------------------------------------------------
(* Actual grid height and utilization before expansion                     *)

RECURSIVE UsedCells(_)
UsedCells(cards) ==
    IF cards = <<>> THEN 0
    ELSE Head(cards).width * Head(cards).height + UsedCells(Tail(cards))

MaxRowUsed(cards) ==
    IF cards = <<>> THEN 0
    ELSE SetMax({cards[k].row + cards[k].height : k \in DOMAIN cards})

ComputeActualGrid ==
    /\ pc = "phase2"
    /\ i = Len(unplacedItems)
    /\ LET actual == Max(viewportRowsInCells * 4, MaxRowUsed(placed) + 8)
       IN /\ actualGridRowsInUnits' = actual
          /\ ctxGridRows' = Max(ctxGridRows, actual)
    /\ usedCellsBeforeExpansion' = UsedCells(placed)
    /\ pc' = "phase3"
    /\ UNCHANGED <<helperVars, inputs, history, gridVars, occupied, placed,
                   columnHeights, i, unplacedIndices, unplacedItems, result>>

TotalCells == gridCols * actualGridRowsInUnits

----------------------------------------------------------------------------
(* Phase 3: scaleCards                                                     *)

\* Mutant of CanModifyCard: only loose: false protects a card.
CanModifyUnlessStrict(fmt) == fmt.loose # "false"

CanModifyCard(fmt) ==
    /\ fmt.loose # "false"
    /\ fmt.size = <<>>
    /\ fmt.minSize = <<>>
    /\ fmt.maxSize = <<>>
    /\ fmt.ratio = ""

\* utilizationBeforeExpansion >= 0.75 || placed.length === 0
ScalingSkipped == 4 * usedCellsBeforeExpansion >= 3 * TotalCells \/ placed = <<>>

\* Math.round(len * cappedScaleFactor), the factor being
\* min(sqrt(0.8 / utilizationBeforeExpansion), 2.0): it is 2 when the
\* utilization is at most 0.2 (a zero utilization gives Infinity, capped).
\* Mutant of ScaledLength: the factor is inverted,
\* sqrt(utilizationBeforeExpansion / 0.8).
ShrunkLength(len) ==
    RoundSqrt(len * len * 5 * usedCellsBeforeExpansion, 4 * TotalCells)

ScaledLength(len) ==
    IF 5 * usedCellsBeforeExpansion <= TotalCells THEN 2 * len
    ELSE RoundSqrt(len * len * 4 * TotalCells, 5 * usedCellsBeforeExpansion)

ScaleCard(card) ==
    LET newWidth == Max(2, ScaledLength(card.width))
        newHeight == Max(2, ScaledLength(card.height))
    IN IF /\ CanModifyCard(ItemFormat(card.originalIndex))
          /\ newWidth <= gridCols
          /\ newHeight <= actualGridRowsInUnits
       THEN [card EXCEPT !.width = newWidth, !.height = newHeight]
       ELSE card

ScaleCards ==
    /\ pc = "phase3"
    /\ placed' = IF ScalingSkipped THEN placed
                 ELSE [k \in DOMAIN placed |-> ScaleCard(placed[k])]
    /\ pc' = "phase4"
    /\ UNCHANGED <<helperVars, inputs, history, gridVars, ctxGridRows, occupied,
                   columnHeights, i, unplacedIndices, unplacedItems, actualGridRowsInUnits,
                   usedCellsBeforeExpansion, result>>

----------------------------------------------------------------------------
(* Phase 4: expandHorizontally                                             *)

\* canExpandRight for a card whose right edge is left of the grid edge.
CanExpandRight(occ, card) ==
    \A r \in card.row .. card.row + card.height - 1 :
      \A c \in card.col + card.width .. gridCols - 1 :
        ~(r >= actualGridRowsInUnits \/ IsOccupied(occ, r, c))

Expands(occ, card) ==
    /\ card.col + card.width < gridCols
    /\ CanExpandRight(occ, card)
    /\ CanModifyCard(ItemFormat(card.originalIndex))

\* The loop over placed from card k on: <<cards, occupancy>> after it.
RECURSIVE ExpandFrom(_, _, _)
ExpandFrom(k, cards, occ) ==
    IF k > Len(cards) THEN <<cards, occ>>
    ELSE LET card == cards[k]
             rightCol == card.col + card.width
         IN IF Expands(occ, card)
            THEN ExpandFrom(k + 1,
                            [cards EXCEPT ![k].width = gridCols - card.col],
                            MarkRegion(occ, card.row, rightCol, gridCols - rightCol,
                                       card.height, actualGridRowsInUnits, gridCols))
            ELSE ExpandFrom(k + 1, cards, occ)

ExpandHorizontally ==
    /\ pc = "phase4"
    /\ LET expanded == ExpandFrom(1, placed, occupied)
       IN /\ placed' = expanded[1]
          /\ occupied' = expanded[2]
    /\ pc' = "metrics"
    /\ UNCHANGED <<helperVars, inputs, history, gridVars, ctxGridRows,
                   columnHeights, i, unplacedIndices, unplacedItems, actualGridRowsInUnits,
                   usedCellsBeforeExpansion, result>>

----------------------------------------------------------------------------
(* Metrics and the result                                                  *)

\* Mutant of ReadsBefore: the sort is by column, then row.
ReadsBeforeByColumn(cards, ka, kb) ==
    \/ cards[ka].col < cards[kb].col
    \/ cards[ka].col = cards[kb].col /\ cards[ka].row < cards[kb].row
    \/ cards[ka].row = cards[kb].row /\ cards[ka].col = cards[kb].col /\ ka < kb

\* Does card a come before card b in sortedPlaced?  The sort is by row,
\* then column, and stable: cards at the same cell keep their order in
\* placed (ka, kb are their positions there).
ReadsBefore(cards, ka, kb) ==
    \/ cards[ka].row < cards[kb].row
    \/ cards[ka].row = cards[kb].row /\ cards[ka].col < cards[kb].col
    \/ cards[ka].row = cards[kb].row /\ cards[ka].col = cards[kb].col /\ ka < kb

\* placementIndex of the card at position k of placed.
PlacementIndex(cards, k) ==
    Cardinality({j \in DOMAIN cards : ReadsBefore(cards, j, k)})

MaxActualDisplacement(cards) ==
    SetMax({0} \cup {Abs(PlacementIndex(cards, k) - cards[k].originalIndex) :
                       k \in DOMAIN cards})

\* finalTotalCells > 0 ? usedCells / finalTotalCells : 0
Utilization(cards) ==
    IF TotalCells > 0 THEN Quotient(UsedCells(cards), TotalCells) ELSE Quotient(0, 1)

\* items.length > 0 ? 1 - maxActualDisplacement / items.length : 1
OrderFidelity(cards) ==
    IF Len(items) > 0 THEN Quotient(Len(items) - MaxActualDisplacement(cards), Len(items))
    ELSE Quotient(1, 1)

\* placedCard.grid: 1-based cell and span of a card.
GridData(card) ==
    [col |-> card.col \div 4 + 1,
     row |-> card.row \div 4 + 1,
     colSpan |-> Ceil(card.width, 4),
     rowSpan |-> Ceil(card.height, 4)]

\* The pixel card of an internal card, in quarter pixels; grid is <<>> when
\* the card has no grid field; item is the input
\* index of the item the card refers to.
PixelCard(card) ==
    [item |-> card.originalIndex,
     x4 |-> card.col * (baseSize + gap),
     y4 |-> card.row * (baseSize + gap),
     width4 |-> card.width * baseSize,
     height4 |-> card.height * baseSize,
     grid |-> IF includeGrid THEN GridData(card) ELSE <<>>]

\* Mutant of PixelCards: the result maps sortedPlaced instead of placed.
PixelCardsInReadingOrder(cards) ==
    [k \in DOMAIN cards |->
       PixelCard(cards[CHOOSE j \in DOMAIN cards : PlacementIndex(cards, j) = k - 1])]

\* placed.map(...): the pixel cards, in the order of placed.
PixelCards(cards) == [k \in DOMAIN cards |-> PixelCard(cards[k])]

BuildResult ==
    /\ pc = "metrics"
    /\ LET cards == PixelCards(placed)
           maxX4 == SetMax({0} \cup {cards[k].x4 + cards[k].width4 : k \in DOMAIN cards})
           maxY4 == SetMax({0} \cup {cards[k].y4 + cards[k].height4 : k \in DOMAIN cards})
       IN result' = [cards |-> cards,
                     width4 |-> Max(4 * width, maxX4),
                     height4 |-> Max(4 * height, maxY4),
                     utilization |-> Utilization(placed),
                     orderFidelity |-> OrderFidelity(placed)]
    /\ pc' = "done"
    /\ UNCHANGED <<helperVars, inputs, history, gridVars, ctxGridRows, occupied,
                   placed, columnHeights, i, unplacedIndices, unplacedItems,
                   actualGridRowsInUnits, usedCellsBeforeExpansion>>

----------------------------------------------------------------------------

Next ==
    \/ ReturnUnusable
    \/ InitContext
    \/ PlaceInColumn
    \/ DeferItem
    \/ SortUnplaced
    \/ FillGapSkip
    \/ FillGapPlace
    \/ FillGapGrow
    \/ ComputeActualGrid
    \/ ScaleCards
    \/ ExpandHorizontally
    \/ BuildResult

Spec == Init /\ [][Next]_vars

\* The calls over the edge formats, with and without grid metadata.
InitEdge ==
    InitCall(SeqsUpTo(EdgeFormats, MaxItems), Containers, {DefaultLooseness}, BOOLEAN)

SpecEdge == InitEdge /\ [][Next]_vars

\* The calls over the formats for the Gap Filler.
InitGaps == InitWith(GapFormats)

SpecGaps == InitGaps /\ [][Next]_vars

\* The longest list of items without a format.
MaxPlain == 5

\* Lists of items without a format, and three lists with formats that send
\* items through the Gap Filler.
PlainLists ==
    {[k \in 1 .. n |-> "plain"] : n \in 0 .. MaxPlain}
      \cup {<<"tallStrict", "tallStrict">>, <<"tallStrict", "minTall", "maxSliver">>,
             <<"plain", "minTall", "plain">>}

\* Containers of four and five grid cells per row, next to the others.
WideContainers ==
    Containers \cup {[width |-> 864, height |-> 216, baseSize |-> 200, gap |-> 16],
                     [width |-> 1100, height |-> 450, baseSize |-> 200, gap |-> 16]}

InitPlain == InitCall(PlainLists, WideContainers, Loosenesses, {FALSE})

SpecPlain == InitPlain /\ [][Next]_vars

----------------------------------------------------------------------------
(* Several calls in a row                                                  *)

\* The most calls one behaviour makes.
MaxCalls == 3

\* The item lists of the first call.
CallItems ==
    {<<>>, <<"plain">>, <<"wide21", "plain", "maxThin">>, <<"tallStrict", "tallStrict">>,
     <<"minTall", "minTall">>, <<"plain", "minTall", "plain">>,
     <<"plain", "plain", "maxThin">>}

\* The arguments of the running call.
Args ==
    [items |-> items, width |-> width, height |-> height, baseSize |-> baseSize,
     gap |-> gap, looseness |-> looseness, includeGrid |-> includeGrid]

\* An unrelated call a caller makes in between.
OtherCall ==
    [items |-> <<"plain", "plain">>, width |-> 648, height |-> 216, baseSize |-> 200,
     gap |-> 16, looseness |-> DefaultLooseness, includeGrid |-> TRUE]

\* What the caller calls next: the same arguments, the same with another
\* looseness, the arguments of an earlier call, or the unrelated call.
NextArgs ==
    {Args} \cup {[Args EXCEPT !.looseness = l] : l \in Loosenesses}
           \cup {history[k].args : k \in DOMAIN history}
           \cup {OtherCall}

\* The call has returned and the caller calls calculateLayout again.  The
\* locals of the returned call are dead; what they held stays where it was.
CallAgain ==
    /\ pc = "done"
    /\ Len(history) < MaxCalls - 1
    /\ history' = Append(history, [args |-> Args, result |-> result])
    /\ \E next \in NextArgs :
         /\ items' = next.items
         /\ width' = next.width
         /\ height' = next.height
         /\ baseSize' = next.baseSize
         /\ gap' = next.gap
         /\ looseness' = next.looseness
         /\ includeGrid' = next.includeGrid
    /\ result' = NoResult
    /\ pc' = "start"
    /\ UNCHANGED <<helperVars, gridVars, ctxGridRows, occupied, placed, columnHeights, i,
                   unplacedIndices, unplacedItems, actualGridRowsInUnits,
                   usedCellsBeforeExpansion>>

InitCalls == InitCall(CallItems, Containers, {DefaultLooseness}, {FALSE})

NextCalls == Next \/ CallAgain

SpecCalls == InitCalls /\ [][NextCalls]_vars

----------------------------------------------------------------------------
(* The helpers: debounce, createResizeObserver, createScrollOptimizer       *)

\* Most entries and scroll events delivered to a helper.
MaxEvents == 3

\* The clock stops at this tick.
MaxTime == 6

\* The debounceMs values of the callers, in ticks of 50 ms: 3 ticks are the
\* default of createResizeObserver, 2 ticks the default of
\* createScrollOptimizer.
Waits == {2, 3}

\* The contentRect sizes of the resize entries.
RectSizes == {<<800, 600>>, <<900, 700>>}

\* The entries of one observer notification: one entry, or the two sizes
\* one after the other.
Notifications ==
    {<<a>> : a \in RectSizes} \cup {<<<<800, 600>>, <<900, 700>>>>}

\* The scrollTop values the container is scrolled to.
ScrollTops == {0, 1000}

\* itemHeight of createScrollOptimizer and clientHeight of the container.
ItemHeight == 200
ClientHeight == 400

\* calculateVisibleRange: <<start, end>> for a scrollTop, with the buffer of
\* 2 items.
VisibleRange(top) ==
    <<Max(0, top \div ItemHeight - 2), Ceil(top + ClientHeight, ItemHeight) + 2>>

\* What the log records: an entry or scroll event (observed when the
\* observer or listener received it), the cleanup, a callback invocation.
Entry(args, observed) ==
    [kind |-> "entry", at |-> now, args |-> args, observed |-> observed]
Invocation(args) == [kind |-> "call", at |-> now, args |-> args, observed |-> FALSE]
CleanupMark == [kind |-> "cleanup", at |-> now, args |-> <<>>, observed |-> FALSE]

IsEntry(e) == e.kind = "entry"
IsCall(e) == e.kind = "call"

\* Mutant of Debounced: a call made while a timeout is pending is dropped.
DebouncedLeading(tm, args) ==
    IF tm.pending THEN tm ELSE [pending |-> TRUE, due |-> now + wait, args |-> args]

\* The function debounce returns, called with args: a pending timeout is
\* cleared and a new one is set, wait from now.
Debounced(tm, args) == [pending |-> TRUE, due |-> now + wait, args |-> args]

\* The loop over the entries of one notification.
RECURSIVE DebouncedEach(_, _)
DebouncedEach(tm, entries) ==
    IF entries = <<>> THEN tm
    ELSE DebouncedEach(Debounced(tm, Head(entries)), Tail(entries))

\* A helper is created at tick 0: createResizeObserver starts observing,
\* createScrollOptimizer registers its listener and calls back once with the
\* initial range.  The layout engine is not running.
InitHelpers ==
    /\ helper \in {"resize", "scroll"}
    /\ wait \in Waits
    /\ now = 0
    /\ listening = TRUE
    /\ timer = NoTimer
    /\ scrollTop \in ScrollTops
    /\ log = IF helper = "scroll" THEN <<Invocation(VisibleRange(scrollTop))>> ELSE <<>>
    /\ EntryState({<<>>}, {[width |-> 648, height |-> 216, baseSize |-> 200, gap |-> 16]},
                  {DefaultLooseness}, {FALSE})

\* The element is resized: a connected observer is notified with the
\* entries and passes each to the debounced callback.
Resize ==
    /\ helper = "resize"
    /\ \E entries \in Notifications :
         /\ Len(SelectSeq(log, IsEntry)) + Len(entries) <= MaxEvents
         /\ log' = log \o [k \in DOMAIN entries |-> Entry(entries[k], listening)]
         /\ timer' = IF listening THEN DebouncedEach(timer, entries) ELSE timer
    /\ UNCHANGED <<layoutVars, helper, wait, now, listening, scrollTop>>

\* The container is scrolled: a registered listener is the debounced
\* calculateVisibleRange.
Scroll ==
    /\ helper = "scroll"
    /\ Len(SelectSeq(log, IsEntry)) < MaxEvents
    /\ \E top \in ScrollTops \ {scrollTop} :
         /\ scrollTop' = top
         /\ log' = Append(log, Entry(<<top>>, listening))
    /\ timer' = IF listening THEN Debounced(timer, <<>>) ELSE timer
    /\ UNCHANGED <<layoutVars, helper, wait, now, listening>>

\* The timeout set by debounce runs: func(...args), that is, the callback
\* with the entry's size, or calculateVisibleRange on the current scrollTop.
RunTimer ==
    /\ timer.pending
    /\ timer.due <= now
    /\ log' = Append(log, Invocation(IF helper = "resize" THEN timer.args
                                     ELSE VisibleRange(scrollTop)))
    /\ timer' = NoTimer
    /\ UNCHANGED <<layoutVars, helper, wait, now, listening, scrollTop>>

\* A tick of the clock passes.  A timeout that is due runs before the clock
\* moves on.
Tick ==
    /\ helper # "none"
    /\ now < MaxTime
    /\ ~(timer.pending /\ timer.due <= now)
    /\ now' = now + 1
    /\ UNCHANGED <<layoutVars, helper, wait, listening, timer, scrollTop, log>>

\* Mutant of TimerAfterCleanup: the cleanup clears the pending timeout.
TimerCancelled(tm) == NoTimer

\* The timeout after the cleanup function has run: the cleanup does not
\* touch it.
TimerAfterCleanup(tm) == tm

\* The cleanup function: observer.disconnect(), or removeEventListener.
Cleanup ==
    /\ helper # "none"
    /\ listening
    /\ listening' = FALSE
    /\ timer' = TimerAfterCleanup(timer)
    /\ log' = Append(log, CleanupMark)
    /\ UNCHANGED <<layoutVars, helper, wait, now, scrollTop>>

NextHelpers ==
    \/ Resize
    \/ Scroll
    \/ RunTimer
    \/ Tick
    \/ Cleanup

SpecHelpers == InitHelpers /\ [][NextHelpers]_vars

----------------------------------------------------------------------------
(* Properties                                                              *)

Done == pc = "done"

\* The call did not take the unusable-viewport return.
UsableGrid == gridCols > 0

\* The final cards, in internal units.
FinalCards == placed

\* The rectangles [col, col + width) x [row, row + height) of two cards share
\* a cell.
CardsOverlap(a, b) ==
    /\ a.col < b.col + b.width /\ b.col < a.col + a.width
    /\ a.row < b.row + b.height /\ b.row < a.row + a.height

FormatOfCard(card) == ItemFormat(card.originalIndex)

\* C1: a call returns exactly one card per input item; stated for the calls
\* whose grid is usable, where nothing in the specification excuses a
\* missing card.
C1_Conservation == Done /\ UsableGrid => Len(result.cards) = Len(items)

\* C2: in the result no two distinct cards have intersecting rectangles.
C2_NoOverlap ==
    Done => \A a, b \in DOMAIN FinalCards :
              a # b => ~CardsOverlap(FinalCards[a], FinalCards[b])

\* C3: from its placement on, every card lies inside the grid (col + width
\* <= gridCols, row + height <= the current row count), and for a usable
\* container result.width is the container width.
C3_CardsInsideGrid ==
    /\ \A k \in DOMAIN placed :
         /\ placed[k].col + placed[k].width <= gridCols
         /\ placed[k].row + placed[k].height <= ctxGridRows
    /\ Done /\ UsableGrid => result.width4 = 4 * width

\* C4: the returned utilization lies in [0, 1]: the cards' areas sum to at
\* most gridCols times the final row count.
C4_UtilizationBounded ==
    Done => /\ result.utilization.den > 0
            /\ 0 <= result.utilization.num
            /\ result.utilization.num <= result.utilization.den

\* The orders in which the cards can be read by row, then column: the
\* positions 0 .. n-1 given to the cards such that a card at a smaller
\* (row, col) gets the smaller position.
ReadingOrders(cards) ==
    {pos \in [DOMAIN cards -> 0 .. Len(cards) - 1] :
       /\ \A a, b \in DOMAIN cards : a # b => pos[a] # pos[b]
       /\ \A a, b \in DOMAIN cards :
            (\/ cards[a].row < cards[b].row
             \/ cards[a].row = cards[b].row /\ cards[a].col < cards[b].col)
            => pos[a] < pos[b]}

\* The largest |position - original index| under a reading order.
WorstDisplacement(cards, pos) ==
    SetMax({0} \cup {Abs(pos[k] - cards[k].originalIndex) : k \in DOMAIN cards})

\* C5: the returned orderFidelity lies in [0, 1]; it is 1 for an empty item
\* list, and otherwise 1 - D / items.length, D being the largest distance
\* between a card's position in reading order and its original index.
C5_OrderFidelity ==
    Done =>
      LET f == result.orderFidelity
          n == Len(items)
      IN /\ f.den > 0 /\ 0 <= f.num /\ f.num <= f.den
         /\ n = 0 => f.num = f.den
         /\ n > 0 => \E pos \in ReadingOrders(FinalCards) :
                       f.num * n = f.den * (n - WorstDisplacement(FinalCards, pos))

\* C5 witness: a call returned at least two cards, one of them displaced.
C5_Witness ==
    /\ Done
    /\ Len(result.cards) >= 2
    /\ result.orderFidelity.num < result.orderFidelity.den

Deferred == {unplacedIndices[j] : j \in DOMAIN unplacedIndices}

C7_MinSizeRespected ==
    Done =>
      \A k \in DOMAIN FinalCards :
        LET fmt == FormatOfCard(FinalCards[k])
        IN (/\ fmt.minSize # <<>>
            /\ fmt.maxSize = <<>>
            /\ ToUnits(fmt.minSize[1], baseSize) <= gridCols
            /\ ToUnits(fmt.minSize[2], baseSize) <= gridRows)
           => /\ FinalCards[k].width >= ToUnits(fmt.minSize[1], baseSize)
              /\ FinalCards[k].height >= ToUnits(fmt.minSize[2], baseSize)

\* C8: a card of an item with maxSize is at most the snapped maximum on both
\* axes.
C8_MaxSizeCaps ==
    Done =>
      \A k \in DOMAIN FinalCards :
        LET fmt == FormatOfCard(FinalCards[k])
        IN fmt.maxSize # <<>>
           => /\ FinalCards[k].width <= ToUnits(fmt.maxSize[1], baseSize)
              /\ FinalCards[k].height <= ToUnits(fmt.maxSize[2], baseSize)

\* C9: a card of an item with an explicit size and no ratio, minSize or
\* maxSize has exactly the snapped size.
C9_ExactSizeKept ==
    Done =>
      \A k \in DOMAIN FinalCards :
        LET fmt == FormatOfCard(FinalCards[k])
        IN (fmt.size # <<>> /\ fmt.ratio = "" /\ fmt.minSize = <<>> /\ fmt.maxSize = <<>>)
           => /\ FinalCards[k].width = ToUnits(fmt.size[1], baseSize)
              /\ FinalCards[k].height = ToUnits(fmt.size[2], baseSize)

\* An item with a strict explicit ratio "W:H" and no other constraint.
StrictRatioItem(fmt) ==
    /\ fmt.ratio # "" /\ ~IsShortcut(fmt.ratio)
    /\ ParseRatio(fmt.ratio) # <<>>
    /\ ParseRatio(fmt.ratio)[1] > 0 /\ ParseRatio(fmt.ratio)[2] > 0
    /\ fmt.loose # "true"
    /\ fmt.size = <<>> /\ fmt.minSize = <<>> /\ fmt.maxSize = <<>>

\* width / height is within 0.1 of W / H, or the biased axis is the exact
\* rounding of the other axis times the ratio.
RatioEnforced(w, h, ratioW, ratioH) ==
    \/ h > 0 /\ 10 * Abs(w * ratioH - ratioW * h) <= h * ratioH
    \/ ratioW > ratioH /\ 2 * ratioH * w <= 2 * h * ratioW + ratioH
                       /\ 2 * h * ratioW + ratioH < 2 * ratioH * (w + 1)
    \/ ratioW <= ratioH /\ 2 * ratioW * h <= 2 * w * ratioH + ratioW
                        /\ 2 * w * ratioH + ratioW < 2 * ratioW * (h + 1)

\* C10: the card of a strict-ratio item has the ratio enforced, and phases 3
\* and 4 leave it at the size the Size Resolver gave it.
C10_StrictRatio ==
    Done =>
      \A k \in DOMAIN FinalCards :
        LET card == FinalCards[k]
            fmt == FormatOfCard(card)
        IN StrictRatioItem(fmt)
           => /\ RatioEnforced(card.width, card.height,
                               ParseRatio(fmt.ratio)[1], ParseRatio(fmt.ratio)[2])
              /\ card.width = SizeOf(card.originalIndex).width
              /\ card.height = SizeOf(card.originalIndex).height

\* C10 witness: a strict-ratio card whose size needed the re-snap is in the
\* result of a call in which phase 3 scaled another card.
C10_Witness ==
    /\ Done
    /\ ~ScalingSkipped
    /\ \E k, j \in DOMAIN FinalCards :
         /\ StrictRatioItem(FormatOfCard(FinalCards[k]))
         /\ <<FinalCards[k].width, FinalCards[k].height>> #
              ApplyRatio([FormatOfCard(FinalCards[k]) EXCEPT !.loose = "true"],
                         8, 8, gridCols, gridRows)
         /\ CanModifyCard(FormatOfCard(FinalCards[j]))
         /\ FinalCards[j].width # SizeOf(FinalCards[j].originalIndex).width

\* C11: every placed card is at least one internal unit wide and high.
C11_PositiveSizes ==
    \A k \in DOMAIN placed : placed[k].width >= 1 /\ placed[k].height >= 1

\* C12: with includeGrid every card of the result carries grid metadata
\* with col = floor(col / 4) + 1 >= 1, row = floor(row / 4) + 1 >= 1,
\* colSpan = ceil(width / 4) >= 1 and rowSpan = ceil(height / 4) >= 1;
\* without includeGrid no card has a grid field.
C12_GridMetadata ==
    Done =>
      \A k \in DOMAIN result.cards :
        LET grid == result.cards[k].grid
            card == FinalCards[k]
        IN IF includeGrid
           THEN /\ grid # <<>>
                /\ grid.col = card.col \div 4 + 1 /\ grid.col >= 1
                /\ grid.row = card.row \div 4 + 1 /\ grid.row >= 1
                /\ 4 * (grid.colSpan - 1) < card.width /\ card.width <= 4 * grid.colSpan
                /\ 4 * (grid.rowSpan - 1) < card.height /\ card.height <= 4 * grid.rowSpan
                /\ grid.colSpan >= 1 /\ grid.rowSpan >= 1
           ELSE grid = <<>>

\* fillGaps has returned.
GapsFilled == pc \in {"phase3", "phase4", "metrics", "done"}

\* C13: on a usable grid, once fillGaps has returned every item phase 1
\* deferred has a card.
C13_DeferredPlaced ==
    GapsFilled /\ UsableGrid =>
      \A index \in Deferred : \E k \in DOMAIN placed : placed[k].originalIndex = index

\* The context has been built: sizes holds the resolved sizes.
Resolved == UsableGrid /\ pc # "start"

\* Loose as the Size Resolver is described: no format, a ratio shortcut, or
\* loose: true.
DescribedLoose(fmt) ==
    \/ fmt = Fmt(<<>>, <<>>, <<>>, "", "unset")
    \/ IsShortcut(fmt.ratio)
    \/ fmt.loose = "true"

\* An explicit strict ratio, or an explicit size, minSize or maxSize.
DescribedStrict(fmt) ==
    \/ fmt.ratio # "" /\ ~IsShortcut(fmt.ratio) /\ fmt.loose # "true"
    \/ fmt.size # <<>> \/ fmt.minSize # <<>> \/ fmt.maxSize # <<>>

\* C14: a size that exceeds the grid on an axis is scaled down to fit (each
\* axis floored, at least 1) when the item is loose, and the resolution
\* fails when the item has an explicit strict ratio or an explicit size,
\* minSize or maxSize.
C14_ScaleDownIffLoose ==
    Resolved =>
      \A k \in DOMAIN items :
        LET fmt == FormatOf[items[k]]
            clamped == ClampedSize(fmt, baseSize, gridCols, gridRows)
        IN (clamped[1] > gridCols \/ clamped[2] > gridRows)
           => /\ DescribedLoose(fmt) =>
                   /\ sizes[k].ok
                   /\ sizes[k].width >= 1 /\ sizes[k].width <= gridCols
                   /\ sizes[k].height >= 1 /\ sizes[k].height <= gridRows
              /\ DescribedStrict(fmt) => ~sizes[k].ok

\* C15: a ratio shortcut with loose: false resolves like a strict ratio (the
\* biased axis is the exact rounding of the other axis times the ratio);
\* without an override portrait and tower resolve to height > width,
\* landscape and banner to width > height.
C15_ShortcutOverride ==
    Resolved =>
      \A k \in DOMAIN items :
        LET fmt == FormatOf[items[k]]
            ratio == ParseRatio(RATIO_SHORTCUTS[fmt.ratio])
            size == sizes[k]
        IN IsShortcut(fmt.ratio) /\ size.ok
           => IF fmt.loose = "false"
              THEN IF ratio[1] > ratio[2]
                   THEN size.width = Round(size.height * ratio[1], ratio[2])
                   ELSE size.height = Round(size.width * ratio[2], ratio[1])
              ELSE IF ratio[1] > ratio[2] THEN size.width > size.height
                   ELSE size.height > size.width

\* C16: a call returns what every earlier call with the same arguments
\* returned, whatever was called in between.
C16_Deterministic ==
    Done => \A n \in DOMAIN history :
              history[n].args = Args => history[n].result = result

\* C16 witness: a call that returns cards repeats the arguments of an
\* earlier call, with a call of other arguments in between.
C16_Witness ==
    /\ Done
    /\ result.cards # <<>>
    /\ \E n, m \in DOMAIN history :
         n < m /\ history[n].args = Args /\ history[m].args # Args

C18_InputsUntouched ==
    /\ [][items' = items]_vars
    /\ [](Done =>
            /\ \A k \in DOMAIN result.cards :
                 result.cards[k].item \in 0 .. Len(items) - 1
            /\ \A a, b \in DOMAIN result.cards :
                 a # b => result.cards[a].item # result.cards[b].item)

\* C18 witness: a call returns several cards, one of them resized by phase
\* 3 or 4.
C18_Witness ==
    /\ Done
    /\ Len(result.cards) >= 2
    /\ \E k \in DOMAIN FinalCards :
         FinalCards[k].width # SizeOf(FinalCards[k].originalIndex).width

\* The degenerate inputs: no item, or a container of less than one grid
\* cell on an axis.
Degenerate == Len(items) = 0 \/ Unusable

\* C19: a degenerate input returns no card and utilization 0.
C19_DegenerateEmpty ==
    Done /\ Degenerate => result.cards = <<>> /\ result.utilization.num = 0

\* C19 witness: a call with items returned from a container without a grid
\* cell.
C19_Witness == Done /\ Len(items) > 0 /\ Unusable

\* C20: the first card of a non-empty result is at pixel (0, 0) and, with
\* includeGrid, at grid column 1, row 1.
C20_FirstCardAtOrigin ==
    Done /\ result.cards # <<>> =>
      LET first == result.cards[1]
      IN /\ first.x4 = 0 /\ first.y4 = 0
         /\ includeGrid => first.grid.col = 1 /\ first.grid.row = 1

\* C20 witness: with includeGrid, a result of several cards whose first card
\* is not the card of the first item.
C20_Witness ==
    /\ Done
    /\ includeGrid
    /\ Len(result.cards) >= 2
    /\ result.cards[1].item # 0

\* Some placed card's current rectangle covers cell <<r, c>>.
CoveredByCard(r, c) == \E k \in DOMAIN placed : Covers(placed[k], r, c)

\* C21: in every state of a call a cell of the occupancy table is true if
\* and only if some placed card's current rectangle covers it.
C21_OccupancyInvariant ==
    \A r \in 0 .. ctxGridRows - 1 :
      \A c \in 0 .. gridCols - 1 :
        IsOccupied(occupied, r, c) <=> CoveredByCard(r, c)

\* A step of phase 2 that grows the grid.
GrowthStep == pc = "phase2" /\ pc' = "phase2" /\ ctxGridRows' # ctxGridRows

\* C22: a growth of phase 2 appends (item height + 8) rows and places the
\* item at column 0 of the first appended row, that is, at the row count the
\* grid had immediately before this growth.
C22_GrowthRegion ==
    [][GrowthStep =>
         /\ Len(placed') = Len(placed) + 1
         /\ LET card == placed'[Len(placed')]
            IN /\ ctxGridRows' = ctxGridRows + card.height + 8
               /\ card.col = 0
               /\ card.row = ctxGridRows]_vars

\* A step of the loop of phase 1: item i is placed or deferred.
ColumnStep == pc = "phase1" /\ pc' = "phase1"

\* The largest of columnHeights[c .. c + w - 1] is at most top, and is top.
SpanAtMost(c, w, top) == \A d \in c .. c + w - 1 : columnHeights[d] <= top
SpanReaches(c, w, top) ==
    SpanAtMost(c, w, top) /\ (top = 0 \/ \E d \in c .. c + w - 1 : columnHeights[d] = top)

\* C23: phase 1 places a resolvable item of width w at the leftmost start
\* column c of 0 .. gridCols - w whose span c .. c + w - 1 has the least
\* greatest column height, at the row equal to that height; it places the
\* item iff row + height <= gridRows and defers it otherwise, and after the
\* placement the column heights of the span all equal row + height.
C23_MasonryChoice ==
    [][ColumnStep /\ SizeOf(i).ok =>
         LET w == SizeOf(i).width
             h == SizeOf(i).height
             starts == 0 .. gridCols - w
             fits == \E c \in starts : \E top \in 0 .. gridRows - h : SpanReaches(c, w, top)
         IN IF fits
            THEN /\ Len(placed') = Len(placed) + 1
                 /\ unplacedIndices' = unplacedIndices
                 /\ LET card == placed'[Len(placed')]
                    IN /\ card.originalIndex = i
                       /\ card.width = w /\ card.height = h
                       /\ card.col \in starts
                       /\ SpanReaches(card.col, w, card.row)
                       /\ \A c \in starts : ~SpanAtMost(c, w, card.row - 1)
                       /\ \A c \in starts : c < card.col => ~SpanAtMost(c, w, card.row)
                       /\ \A d \in card.col .. card.col + w - 1 :
                            columnHeights'[d] = card.row + h
            ELSE /\ placed' = placed
                 /\ unplacedIndices' = Append(unplacedIndices, i)]_vars

\* C23 witness: phase 1 has placed a card right of column 0, next to a card
\* that raised the columns left of it, and has deferred an item whose size
\* is resolved.
C23_Witness ==
    /\ pc = "phase1"
    /\ \E k \in DOMAIN placed : placed[k].col > 0 /\ columnHeights[0] > 0
    /\ \E j \in DOMAIN unplacedIndices : SizeOf(unplacedIndices[j]).ok

\* The card of the item with input index index, if it has one.
CardOf(index) == placed[CHOOSE k \in DOMAIN placed : placed[k].originalIndex = index]

HasCard(index) == \E k \in DOMAIN placed : placed[k].originalIndex = index

\* C24: while phase 2 runs, the card of a deferred item has the item's
\* resolved size or, only if the item is loose and has no ratio, the size
\* 4x4 or 4x2; its area never exceeds the area of the resolved size; and no
\* item is tried at more than three sizes.
C24_FallbackSizes ==
    pc = "phase2" =>
      /\ \A index \in Deferred :
           HasCard(index) =>
             LET card == CardOf(index)
                 size == SizeOf(index)
                 fmt == ItemFormat(index)
             IN /\ \/ card.width = size.width /\ card.height = size.height
                   \/ /\ fmt.loose # "false" /\ fmt.ratio = ""
                      /\ card.width = 4 /\ card.height \in {4, 2}
                /\ card.width * card.height <= size.width * size.height
      /\ \A j \in DOMAIN unplacedItems : Len(Candidates(unplacedItems[j])) <= 3

\* The item sets format.size, minSize, maxSize or ratio, or loose: false.
Constrained(fmt) ==
    \/ fmt.size # <<>> \/ fmt.minSize # <<>> \/ fmt.maxSize # <<>>
    \/ fmt.ratio # "" \/ fmt.loose = "false"

\* C25: from the end of phase 2 on no step changes the card of a constrained
\* item, and phase 3 changes no card at all when the utilization before
\* expansion is at least 0.75.
C25_OnlyModifiableChange ==
    [][GapsFilled =>
         /\ Len(placed') = Len(placed)
         /\ \A k \in DOMAIN placed :
              Constrained(FormatOfCard(placed[k])) => placed'[k] = placed[k]
         /\ (/\ pc = "phase3"
             /\ 4 * usedCellsBeforeExpansion >= 3 * gridCols * actualGridRowsInUnits)
            => placed' = placed]_vars

\* C25 witness: a call has returned the card of a constrained item next to a
\* card that phase 3 scaled.
C25_Witness ==
    /\ Done
    /\ 4 * usedCellsBeforeExpansion < 3 * gridCols * actualGridRowsInUnits
    /\ \E k, j \in DOMAIN placed :
         /\ Constrained(FormatOfCard(placed[k]))
         /\ ~Constrained(FormatOfCard(placed[j]))
         /\ placed[j].height > SizeOf(placed[j].originalIndex).height

\* No item of the call has a format.
AllPlain == \A k \in DOMAIN items : items[k] = "plain"

\* C26: when no item has a format and the grid is usable, phase 1 defers no
\* item, result.cards is in input order, the cards read by row, then column,
\* are in input order, and orderFidelity is 1, whatever the looseness.
C26_PlainItemsInOrder ==
    Done /\ UsableGrid /\ AllPlain =>
      /\ unplacedIndices = <<>>
      /\ Len(result.cards) = Len(items)
      /\ \A k \in DOMAIN result.cards : result.cards[k].item = k - 1
      /\ \A a, b \in DOMAIN FinalCards :
           a < b => \/ FinalCards[a].row < FinalCards[b].row
                    \/ /\ FinalCards[a].row = FinalCards[b].row
                       /\ FinalCards[a].col < FinalCards[b].col
      /\ result.orderFidelity.num = result.orderFidelity.den

\* C26 witness: a call with a looseness other than the default returned
\* cards of items without a format, two in one row and one in a later row.
C26_Witness ==
    /\ Done /\ UsableGrid /\ AllPlain
    /\ looseness # DefaultLooseness
    /\ \E a, b, c \in DOMAIN FinalCards :
         /\ FinalCards[a].row = FinalCards[b].row /\ FinalCards[a].col < FinalCards[b].col
         /\ FinalCards[c].row > FinalCards[b].row

\* The entries the observer or listener received, and the invocations of
\* the callback, each in order.
ObservedEntry(e) == e.kind = "entry" /\ e.observed
Observed == SelectSeq(log, ObservedEntry)
Invocations == SelectSeq(log, IsCall)

\* The entries that end a burst: the last one received, and every one
\* followed by the next more than wait later.
BurstEnds ==
    {j \in DOMAIN Observed :
       j = Len(Observed) \/ Observed[j + 1].at - Observed[j].at > wait}

\* No two consecutive entries are exactly wait apart (then the order of
\* the timeout and the second entry at that instant decides).
NoTie == \A j \in 1 .. Len(Observed) - 1 : Observed[j + 1].at - Observed[j].at # wait

\* C27: the callback of createResizeObserver is never invoked in the step
\* that delivers entries; and it is invoked exactly once per burst of
\* entries less than debounceMs apart (also entries of one notification),
\* debounceMs after the last entry of the burst and with that entry's width
\* and height: while the timeout of the last burst is pending it is due
\* debounceMs after the last entry and carries its size.
C27_Debounced ==
    /\ [][helper = "resize" /\ SelectSeq(log', IsEntry) # SelectSeq(log, IsEntry)
           => SelectSeq(log', IsCall) = Invocations]_vars
    /\ [](helper = "resize" /\ NoTie =>
            LET last == Len(Observed)
                ended == {j \in BurstEnds : j < last \/ ~timer.pending}
            IN /\ Len(Invocations) = Cardinality(ended)
               /\ \A j \in ended :
                    \E c \in DOMAIN Invocations :
                      /\ Invocations[c].at = Observed[j].at + wait
                      /\ Invocations[c].args = Observed[j].args
               /\ timer.pending =>
                    /\ last > 0
                    /\ now <= timer.due
                    /\ timer.due = Observed[last].at + wait
                    /\ timer.args = Observed[last].args)

\* C27 witness: the callback has run once, after a burst of three entries
\* of which two came in one notification and the last differs from the
\* first.
C27_Witness ==
    /\ helper = "resize"
    /\ Len(Observed) = 3
    /\ \A j \in 1 .. 2 : Observed[j + 1].at - Observed[j].at < wait
    /\ Observed[1].at = Observed[2].at
    /\ Observed[2].at < Observed[3].at
    /\ Observed[3].args # Observed[1].args
    /\ ~timer.pending
    /\ Len(Invocations) = 1

\* The position of the cleanup in the log, 0 before the cleanup.
CleanupAt ==
    IF \E k \in DOMAIN log : log[k].kind = "cleanup"
    THEN CHOOSE k \in DOMAIN log : log[k].kind = "cleanup"
    ELSE 0

\* The positions of the entries received before the cleanup, and of the
\* invocations made after it.
ReceivedBeforeCleanup == {k \in 1 .. CleanupAt : ObservedEntry(log[k])}
InvokedAfterCleanup == {k \in CleanupAt + 1 .. Len(log) : IsCall(log[k])}

\* C28: the cleanup of either helper only disconnects: it leaves a pending
\* timeout alone and invokes nothing.  After it no entry or scroll event is
\* received or touches the timeout; the callback is invoked at most once,
\* debounceMs after the last event received before the cleanup, and exactly
\* once when that event came less than debounceMs before the cleanup and
\* its timeout has run.
C28_CleanupKeepsTimer ==
    /\ [][listening /\ ~listening' => timer' = timer /\ SelectSeq(log', IsCall) = Invocations]_vars
    /\ [][~listening /\ SelectSeq(log', IsEntry) # SelectSeq(log, IsEntry)
           => /\ timer' = timer
              /\ SelectSeq(log', IsCall) = Invocations
              /\ SelectSeq(log', ObservedEntry) = Observed]_vars
    /\ [](CleanupAt > 0 =>
            /\ Cardinality(InvokedAfterCleanup) <= 1
            /\ \A c \in InvokedAfterCleanup :
                 /\ ReceivedBeforeCleanup # {}
                 /\ log[c].at = log[SetMax(ReceivedBeforeCleanup)].at + wait
            /\ (/\ ReceivedBeforeCleanup # {}
                /\ log[CleanupAt].at - log[SetMax(ReceivedBeforeCleanup)].at < wait)
               => IF timer.pending
                  THEN InvokedAfterCleanup = {} /\ now <= timer.due
                  ELSE Cardinality(InvokedAfterCleanup) = 1)

\* C28 witness: the callback has run after the cleanup, for an event
\* received before it, although a later event came between the cleanup and
\* the invocation.
C28_Witness ==
    /\ CleanupAt > 0
    /\ ReceivedBeforeCleanup # {}
    /\ \E c \in InvokedAfterCleanup :
         \E k \in CleanupAt + 1 .. c : IsEntry(log[k])

\* C29: no step moves a placed card (col and row stay), no step makes a
\* card narrower or lower, and the returned utilization is at least the
\* utilization computed after phase 2.
C29_CardsOnlyGrow ==
    /\ [][pc # "start" =>
            \A k \in DOMAIN placed :
              /\ k \in DOMAIN placed'
              /\ placed'[k].originalIndex = placed[k].originalIndex
              /\ placed'[k].col = placed[k].col
              /\ placed'[k].row = placed[k].row
              /\ placed'[k].width >= placed[k].width
              /\ placed'[k].height >= placed[k].height]_vars
    /\ [](Done /\ UsableGrid =>
            result.utilization.num * TotalCells
              >= usedCellsBeforeExpansion * result.utilization.den)

\* C29 witness: a call returned several cards with a utilization above the
\* one computed after phase 2, a card having been scaled by phase 3 and then
\* widened to the grid edge by phase 4.
C29_Witness ==
    /\ Done /\ UsableGrid
    /\ Len(placed) >= 2
    /\ result.utilization.num * TotalCells > usedCellsBeforeExpansion * result.utilization.den
    /\ \E k \in DOMAIN placed :
         /\ placed[k].height > SizeOf(placed[k].originalIndex).height
         /\ placed[k].width > Max(2, ScaledLength(SizeOf(placed[k].originalIndex).width))
         /\ placed[k].col + placed[k].width = gridCols

\* C30: while phase 1 runs, every occupied cell <<r, c>> has
\* r < columnHeights[c] and no two placed cards overlap; and no step of
\* phase 1 lowers a column height.
C30_ColumnHeights ==
    /\ [](pc = "phase1" =>
            /\ \A c \in 0 .. gridCols - 1 :
                 \A r \in 0 .. gridRows - 1 :
                   IsOccupied(occupied, r, c) => r < columnHeights[c]
            /\ \A a, b \in DOMAIN placed :
                 a # b => ~CardsOverlap(placed[a], placed[b]))
    /\ [][ColumnStep =>
            \A c \in 0 .. gridCols - 1 : columnHeights'[c] >= columnHeights[c]]_vars

\* C30 witness: phase 1 has placed three cards, one of them next to another
\* and one below another, and the columns have different heights.
C30_Witness ==
    /\ pc = "phase1"
    /\ Len(placed) = 3
    /\ \E k \in DOMAIN placed : placed[k].col > 0
    /\ \E k \in DOMAIN placed : placed[k].row > 0
    /\ \E c, d \in 0 .. gridCols - 1 : columnHeights[c] # columnHeights[d]

====
